---------------------------- MODULE Spec2Model ----------------------------
(***************************************************************************)
(* KFS: content-addressed, disk-redundant file store.                      *)
(*                                                                         *)
(* The model follows the upload path of the server:                        *)
(*   handle_upload (src/routes.go) -> AllocStorage (src/main.go)           *)
(*                                 -> archive_file (src/storage.go).       *)
(* Every upload request is served by its own goroutine (net/http); the     *)
(* goroutines share the sqlite tables `disks` and `files`, the global      *)
(* mutex and the file system.  The steps of a goroutine are:               *)
(*   Request    the form is parsed                                         *)
(*   Lock       mutex.Lock()                                               *)
(*   AllocBody  the body of AllocStorage; the mutex is held and no other   *)
(*              goroutine writes the tables meanwhile, so its SQL          *)
(*              statements are taken in one step, which ends at the        *)
(*              return statement or at the first statement that fails      *)
(*   Unlock     the deferred mutex.Unlock()                                *)
(*   Stage      the checks of err and skip; the upload is written to the   *)
(*              staging directory                                          *)
(*   Verify     hash_file, the comparison, os.Rename, go archive_file      *)
(*   Launch     one iteration of the loop of archive_file                  *)
(*   StoreFile  one copy goroutine                                         *)
(*   Wait       wg.Wait()                                                  *)
(*   Remove     os.Remove of the staging file                              *)
(* handle_exists, the existence probe, is one step of its own.             *)
(* db_init, the start of main, is one step that ends when the function     *)
(* returns or at the first statement that panics; ListenAndServe follows.   *)
(* Every call into the store (db.QueryRow, db.Query, db.Exec), os.Create   *)
(* and every external command (b2sum, cp) may fail; the model takes the    *)
(* branch the code takes on the error.  os.Rename and os.Remove, whose     *)
(* results the code does not read, are taken to succeed.                   *)
(***************************************************************************)
EXTENDS Integers, Sequences, FiniteSets, TLC

(***************************************************************************)
(* Program constants and bounds of the model.                              *)
(***************************************************************************)
\* replicas kept per content hash
KFS_REDUNDANCY == 2

\* number of disk roots db_init registers (its `disks` list)
NDisks == 3

\* number of upload requests served (one goroutine each)
NWorkers == 2

\* largest value the free-space probe reports for a disk
MaxAvail == 5

\* largest upload size (header.Size)
MaxSize == 2

\* number of distinct content hashes clients send
NHashes == 2

Disks == 1..NDisks

Workers == 1..NWorkers

Hashes == 1..NHashes

Sizes == 0..MaxSize

\* mutex value when nobody holds it
NoOwner == 0

VARIABLES
    available,      \* table disks: root -> available
    files,          \* table files: hash -> storage_root -> number of rows
    mutex,          \* the global sync.Mutex: NoOwner or the goroutine holding it
    entry,          \* history: the two tables as they were when the holder
                    \* locked, or when db_init started
    pc,             \* position of each upload goroutine
    req,            \* the request: client_hash and size
    ret,            \* what AllocStorage returned (or that it panicked)
    nrec,           \* number of rows of `files` the call has inserted
    resp,           \* what handle_upload answered
    file_hash,      \* handle_upload local `hash`: the digest hash_file computed
    fs,             \* files present on the disks
    launched,       \* archive_file: number of copy goroutines started
    task,           \* archive_file: state of the copy goroutine per target
    wg,             \* archive_file: the sync.WaitGroup counter
    exists_resp,    \* what handle_exists answered last, and for which hash
    server,         \* main: "down", "initialized" (db_init returned) or "up"
    disk_rows,      \* table disks: root -> number of rows with that root
    space           \* db_init local `space`: the free space probed per disk

vars == <<available, files, mutex, entry, pc, req, ret, nrec, resp,
          file_hash, fs, launched, task, wg, exists_resp,
          server, disk_rows, space>>

boot_vars == <<server, disk_rows, space>>

\* the two tables as one value
Ledger(avail, recs) == [available |-> avail, files |-> recs]

ledger == Ledger(available, files)

archive_vars == <<file_hash, fs, launched, task, wg>>

(***************************************************************************)
(* Values                                                                  *)
(***************************************************************************)
NoEntry == <<>>

NoHash == 0

NoReq == [hash |-> NoHash, size |-> 0]

\* db_init is not running: it has no local `space`
NoSpace == <<>>

\* handle_exists has not answered
NoAnswer == [hash |-> NoHash, answer |-> "none"]

\* AllocStorage has not returned
NoRet == [kind |-> "none", skip |-> FALSE, staging_path |-> <<>>,
          storage_paths |-> <<>>]

\* fmt.Sprintf("%s/.kfs/staging/", staging_dir)
StagingPath(dir) == <<dir, ".kfs/staging/">>

\* fmt.Sprintf("%s/.kfs/storage/", dir)
StoragePath(dir) == <<dir, ".kfs/storage/">>

\* the disk root a path built by AllocStorage lies on
RootOf(path) == path[1]

RECURSIVE SumOver(_, _)
SumOver(row, ds) ==
    IF ds = {} THEN 0
    ELSE LET d == CHOOSE x \in ds : TRUE
         IN row[d] + SumOver(row, ds \ {d})

\* select count(*) from files where hash = ?
CountRows(recs, h) == SumOver(recs[h], Disks)

\* db_has_hash when its query succeeds
db_has_hash(h) == CountRows(files, h) > 0

\* faulty variant: the threshold of the earlier revision, db.Query(query, size)
ThresholdSize(size) == size

\* the free space a candidate disk must exceed: db.Query(query, 2*size)
Threshold(size) == 2 * size

\* faulty variant: where available >= ?
CandidatesAtLeast(min_free) == {d \in Disks : available[d] >= min_free}

\* select root from disks where available > ?
Candidates(min_free) == {d \in Disks : available[d] > min_free}

\* faulty variant: every entry drawn at random on its own, repeats possible
ShufflesWithRepeats(S) == [1..Cardinality(S) -> S]

\* every order rand.Shuffle can leave the candidate list in
Shuffles(S) ==
    {p \in [1..Cardinality(S) -> S] :
        \A i, j \in 1..Cardinality(S) : i # j => p[i] # p[j]}

\* staging_dir := disks[0]
StagingDir(disks) == disks[1]

\* storage_dirs: the first KFS_REDUNDANCY entries of the shuffled list
StorageDirs(disks) == [i \in 1..KFS_REDUNDANCY |-> disks[i]]

\* update disks set available = available - ? where root = ?
db_reduce_space(led, root, size) ==
    [led EXCEPT !.available[root] = @ - size]

\* insert into files(hash, hash_algo, storage_root) values(?, 'blake2b', ?)
db_add_file_record(led, hash, storage_dir) ==
    [led EXCEPT !.files[hash][storage_dir] = @ + 1]

\* faulty variant: the staging disk is not debited apart from its replica
CommitStatementsNoStaging(staging_dir, storage_dirs, hash, size) ==
    [i \in 1..Len(storage_dirs) |->
          [op |-> "reduce", root |-> storage_dirs[i], hash |-> hash,
           size |-> size]]
    \o [i \in 1..Len(storage_dirs) |->
          [op |-> "insert", root |-> storage_dirs[i], hash |-> hash,
           size |-> size]]

\* The SQL statements of the commit step in program order: the debit of the
\* staging disk, the debit of every storage disk, the insert of every row.
\* Each is its own db.Exec: the code opens no transaction.
CommitStatements(staging_dir, storage_dirs, hash, size) ==
    <<[op |-> "reduce", root |-> staging_dir, hash |-> hash, size |-> size]>>
    \o [i \in 1..Len(storage_dirs) |->
          [op |-> "reduce", root |-> storage_dirs[i], hash |-> hash,
           size |-> size]]
    \o [i \in 1..Len(storage_dirs) |->
          [op |-> "insert", root |-> storage_dirs[i], hash |-> hash,
           size |-> size]]

\* one db.Exec that succeeds
Exec(led, stmt) ==
    IF stmt.op = "reduce"
    THEN db_reduce_space(led, stmt.root, stmt.size)
    ELSE db_add_file_record(led, stmt.hash, stmt.root)

\* the tables after the first n statements have run
RECURSIVE RunStatements(_, _, _)
RunStatements(led, stmts, n) ==
    IF n = 0 THEN led
    ELSE Exec(RunStatements(led, stmts, n - 1), stmts[n])

\* how many of the first n statements are inserts
InsertsIn(stmts, n) == Cardinality({i \in 1..n : stmts[i].op = "insert"})

\* the values AllocStorage returns with a placement
Placement(staging_dir, storage_dirs) ==
    [kind |-> "placement", skip |-> FALSE,
     staging_path |-> StagingPath(staging_dir),
     storage_paths |-> [i \in 1..Len(storage_dirs) |->
                           StoragePath(storage_dirs[i])]]

\* the values AllocStorage can return, and the mark left by a panic
RetValues ==
    {NoRet} \cup
    {[NoRet EXCEPT !.kind = k, !.skip = (k = "skip")] :
        k \in {"skip", "query_error", "not_enough_disks", "panic"}} \cup
    {Placement(StagingDir(p), StorageDirs(p)) :
        p \in [1..KFS_REDUNDANCY -> Disks]}

\* the shape of the state
TypeOK ==
    /\ available \in [Disks -> Int]
    /\ files \in [Hashes -> [Disks -> Nat]]
    /\ mutex \in Workers \cup {NoOwner}
    /\ entry = NoEntry \/ entry \in [available : [Disks -> Int],
                                     files : [Hashes -> [Disks -> Nat]]]
    /\ pc \in [Workers -> {"idle", "lock", "alloc", "unlock", "allocated",
                           "staged", "archive_loop", "archive_wait",
                           "archive_remove", "archived", "done"}]
    /\ req \in [Workers -> [hash : Hashes \cup {NoHash}, size : Sizes]]
    /\ ret \in [Workers -> RetValues]
    /\ nrec \in [Workers -> 0..KFS_REDUNDANCY]
    /\ resp \in [Workers -> {"none", "bad_request", "server_error", "ok",
                             "create_failed", "hash_failed", "mismatch",
                             "aborted"}]
    /\ file_hash \in [Workers -> Hashes \cup {NoHash}]
    /\ \A f \in fs : f.dir[1] \in Disks
    /\ launched \in [Workers -> 0..KFS_REDUNDANCY]
    /\ \A w \in Workers :
          \A k \in DOMAIN task[w] :
              task[w][k] \in {"none", "running", "stored", "failed"}
    /\ wg \in [Workers -> 0..KFS_REDUNDANCY]
    /\ exists_resp \in [hash : Hashes \cup {NoHash},
                         answer : {"none", "yes", "no"}]
    /\ server \in {"down", "initialized", "up"}
    /\ disk_rows \in [Disks -> 0..1]
    /\ space = NoSpace \/ space \in [Disks -> 0..MaxAvail]

(***************************************************************************)
(* Initial state: db_init has created the tables and stored the probed     *)
(* free space of every disk; no request has arrived.  The roots are        *)
(* interchangeable (the shuffle treats them alike), so the probed values   *)
(* are listed in non-increasing order of the root's number.                *)
(***************************************************************************)
Probes ==
    {a \in [Disks -> {0, MaxAvail}] :
        \A d \in Disks : d < NDisks => a[d] >= a[d + 1]}

Init ==
    /\ available \in Probes
    /\ files = [h \in Hashes |-> [d \in Disks |-> 0]]
    /\ mutex = NoOwner
    /\ entry = NoEntry
    /\ pc = [w \in Workers |-> "idle"]
    /\ req = [w \in Workers |-> NoReq]
    /\ ret = [w \in Workers |-> NoRet]
    /\ nrec = [w \in Workers |-> 0]
    /\ resp = [w \in Workers |-> "none"]
    /\ file_hash = [w \in Workers |-> NoHash]
    /\ fs = {}
    /\ launched = [w \in Workers |-> 0]
    /\ task = [w \in Workers |-> <<>>]
    /\ wg = [w \in Workers |-> 0]
    /\ exists_resp = NoAnswer
    /\ server = "up"
    /\ disk_rows = [d \in Disks |-> 1]
    /\ space = NoSpace

(***************************************************************************)
(* handle_upload, first part: the request is parsed.                       *)
(***************************************************************************)
RequestOf(w, sizes) ==
    /\ pc[w] = "idle"
    /\ \E form_ok \in BOOLEAN, h \in Hashes, s \in sizes :
        IF form_ok
        THEN /\ req' = [req EXCEPT ![w] = [hash |-> h, size |-> s]]
             /\ pc' = [pc EXCEPT ![w] = "lock"]
             /\ resp' = resp
        ELSE /\ resp' = [resp EXCEPT ![w] = "bad_request"]
             /\ pc' = [pc EXCEPT ![w] = "done"]
             /\ req' = req
    /\ UNCHANGED <<exists_resp, boot_vars>>
    /\ UNCHANGED <<available, files, mutex, entry, ret, nrec, archive_vars>>

Request(w) == RequestOf(w, Sizes)

\* the sizes of the uploads followed through replication
UploadSizes == {1}

(***************************************************************************)
(* AllocStorage                                                            *)
(***************************************************************************)
\* faulty variant: Lock returns although the mutex is held
MutexFreeAlways == TRUE

\* mutex.Lock() returns only when nobody holds the mutex
MutexFree == mutex = NoOwner

\* mutex.Lock()
Lock(w) ==
    /\ pc[w] = "lock"
    /\ MutexFree
    /\ mutex' = w
    /\ entry' = ledger
    /\ pc' = [pc EXCEPT ![w] = "alloc"]
    /\ UNCHANGED <<exists_resp, boot_vars>>
    /\ UNCHANGED <<available, files, req, ret, nrec, resp, archive_vars>>

\* The body of AllocStorage, from the dedup lookup to the return statement
\* or the panic that ends it.  The mutex is held throughout.
\*   lookup_ok: the query of db_has_hash succeeds (it answers false if not)
\*   query_ok:  the candidate query succeeds
\*   fail_at:   the first db.Exec of the commit step that fails and panics
\*              (one more than their number: none fails)
AllocBody(w) ==
    /\ pc[w] = "alloc"
    /\ \E lookup_ok \in BOOLEAN, query_ok \in BOOLEAN :
        LET hash == req[w].hash
            size == req[w].size
            cands == Candidates(Threshold(size))
        IN IF lookup_ok /\ db_has_hash(hash)
           THEN /\ ret' = [ret EXCEPT ![w] =
                              [NoRet EXCEPT !.kind = "skip", !.skip = TRUE]]
                /\ UNCHANGED <<available, files, nrec>>
           ELSE IF ~query_ok
           THEN /\ ret' = [ret EXCEPT ![w] =
                              [NoRet EXCEPT !.kind = "query_error"]]
                /\ UNCHANGED <<available, files, nrec>>
           ELSE IF Cardinality(cands) < KFS_REDUNDANCY
           THEN /\ ret' = [ret EXCEPT ![w] =
                              [NoRet EXCEPT !.kind = "not_enough_disks"]]
                /\ UNCHANGED <<available, files, nrec>>
           ELSE \E disks \in Shuffles(cands) :
                LET staging_dir == StagingDir(disks)
                    storage_dirs == StorageDirs(disks)
                    stmts == CommitStatements(staging_dir, storage_dirs,
                                              hash, size)
                IN \E fail_at \in 1..(Len(stmts) + 1) :
                   LET led == RunStatements(ledger, stmts, fail_at - 1)
                   IN /\ available' = led.available
                      /\ files' = led.files
                      /\ nrec' = [nrec EXCEPT ![w] =
                                     InsertsIn(stmts, fail_at - 1)]
                      /\ ret' = [ret EXCEPT ![w] =
                                   IF fail_at > Len(stmts)
                                   THEN Placement(staging_dir, storage_dirs)
                                   ELSE [NoRet EXCEPT !.kind = "panic"]]
    /\ pc' = [pc EXCEPT ![w] = "unlock"]
    /\ UNCHANGED <<exists_resp, boot_vars>>
    /\ UNCHANGED <<mutex, entry, req, resp, archive_vars>>

\* faulty variant: the goroutine keeps the mutex after AllocStorage
MutexKept(w) == w

\* the holder of the mutex once the deferred mutex.Unlock() has run
MutexReleased(w) == NoOwner

\* defer mutex.Unlock(); a panic ends the handler (net/http recovers it)
Unlock(w) ==
    /\ pc[w] = "unlock"
    /\ mutex' = MutexReleased(w)
    /\ entry' = NoEntry
    /\ IF ret[w].kind = "panic"
       THEN /\ pc' = [pc EXCEPT ![w] = "done"]
            /\ resp' = [resp EXCEPT ![w] = "aborted"]
            /\ ret' = [ret EXCEPT ![w] = NoRet]
       ELSE /\ pc' = [pc EXCEPT ![w] = "allocated"]
            /\ UNCHANGED <<resp, ret>>
    /\ req' = [req EXCEPT ![w].size = 0]
    /\ UNCHANGED <<exists_resp, boot_vars>>
    /\ UNCHANGED <<available, files, nrec, archive_vars>>

AllocStorage(w) ==
    \/ Lock(w)
    \/ AllocBody(w)
    \/ Unlock(w)

(***************************************************************************)
(* handle_upload, after AllocStorage has returned.  Locals that no later   *)
(* statement reads are reset when the goroutine ends.                      *)
(***************************************************************************)
\* get_output_path: a fresh uuid name under the staging path
get_output_path(staging_path, w) ==
    [dir |-> staging_path, name |-> <<"uuid", w, "">>]

\* filepath.Join(staging_path, hash+".blake2b")
HashFilename(staging_path, h) ==
    [dir |-> staging_path, name |-> <<"hash", h, ".blake2b">>]

\* cp src dst, dst a directory: the copy keeps the name of the source
CopyTarget(src, storage_path) == [dir |-> storage_path, name |-> src.name]

\* the handler returns without starting archive_file
Finish(w, answer) ==
    /\ resp' = [resp EXCEPT ![w] = answer]
    /\ pc' = [pc EXCEPT ![w] = "done"]
    /\ ret' = [ret EXCEPT ![w] = NoRet]

\* faulty variant: the handler does not look at skip
SkipIgnored(w) == FALSE

\* if skip { ... return }
SkipReturned(w) == ret[w].skip

\* the checks of err and skip, then os.Create and io.Copy of the upload
Stage(w) ==
    /\ pc[w] = "allocated"
    /\ IF ret[w].kind \in {"query_error", "not_enough_disks"}
       THEN /\ Finish(w, "server_error")
            /\ fs' = fs
       ELSE IF SkipReturned(w)
       THEN /\ Finish(w, "ok")
            /\ fs' = fs
       ELSE \E create_ok \in BOOLEAN :
            IF create_ok
            THEN /\ fs' = fs \cup {get_output_path(ret[w].staging_path, w)}
                 /\ pc' = [pc EXCEPT ![w] = "staged"]
                 /\ UNCHANGED <<resp, ret>>
            ELSE /\ Finish(w, "create_failed")
                 /\ fs' = fs
    /\ UNCHANGED <<exists_resp, boot_vars>>
    /\ UNCHANGED <<available, files, mutex, entry, req, nrec, file_hash,
                   launched, task, wg>>

\* faulty variant: the digest is not compared with the client's
HashMatchesAlways(hash, client_hash) == TRUE

\* if hash != client_hash { ... return }
HashMatches(hash, client_hash) == hash = client_hash

\* hash_file, the comparison with client_hash, os.Rename, go archive_file
\*   hashed:  b2sum ran
\*   content: the digest of the bytes received
Verify(w) ==
    /\ pc[w] = "staged"
    /\ \E hashed \in BOOLEAN, content \in Hashes :
        LET output_path == get_output_path(ret[w].staging_path, w)
            hash_filename == HashFilename(ret[w].staging_path, content)
        IN IF ~hashed
           THEN /\ Finish(w, "hash_failed")
                /\ UNCHANGED <<file_hash, fs, launched, task, wg>>
           ELSE IF ~HashMatches(content, req[w].hash)
           THEN /\ Finish(w, "mismatch")
                /\ UNCHANGED <<file_hash, fs, launched, task, wg>>
           ELSE /\ file_hash' = [file_hash EXCEPT ![w] = content]
                /\ fs' = (fs \ {output_path}) \cup {hash_filename}
                /\ launched' = [launched EXCEPT ![w] = 0]
                /\ task' = [task EXCEPT ![w] =
                               [k \in 1..Len(ret[w].storage_paths) |-> "none"]]
                /\ wg' = [wg EXCEPT ![w] = 0]
                /\ resp' = [resp EXCEPT ![w] = "ok"]
                /\ pc' = [pc EXCEPT ![w] = "archive_loop"]
                /\ ret' = ret
    /\ UNCHANGED <<exists_resp, boot_vars>>
    /\ UNCHANGED <<available, files, mutex, entry, req, nrec>>

(***************************************************************************)
(* archive_file                                                            *)
(***************************************************************************)
\* one iteration of the loop: wg.Add(1); go func() { ... }()
Launch(w) ==
    /\ pc[w] = "archive_loop"
    /\ LET k == launched[w] + 1
       IN /\ wg' = [wg EXCEPT ![w] = @ + 1]
          /\ task' = [task EXCEPT ![w][k] = "running"]
          /\ launched' = [launched EXCEPT ![w] = k]
          /\ pc' = [pc EXCEPT ![w] =
                      IF k < Len(ret[w].storage_paths)
                      THEN "archive_loop" ELSE "archive_wait"]
    /\ UNCHANGED <<exists_resp, boot_vars>>
    /\ UNCHANGED <<available, files, mutex, entry, req, ret, nrec, resp,
                   file_hash, fs>>

\* faulty variant: a copy that failed is run again
CopyOutcomeRetry(copied) == IF copied THEN "stored" ELSE "running"

\* store_file: copy_file is called once and its error is dropped; the
\* goroutine ends either way
CopyOutcome(copied) == IF copied THEN "stored" ELSE "failed"

\* the copy goroutine: store_file, then the deferred wg.Done()
\*   cp_ok: cp does not fail for a reason of its own
StoreFile(w, k) ==
    /\ k \in DOMAIN task[w]
    /\ task[w][k] = "running"
    /\ \E cp_ok \in BOOLEAN :
        LET src == HashFilename(ret[w].staging_path, file_hash[w])
            dst == CopyTarget(src, ret[w].storage_paths[k])
            copied == cp_ok /\ src \in fs
        IN /\ fs' = IF copied THEN fs \cup {dst} ELSE fs
           /\ task' = [task EXCEPT ![w][k] = CopyOutcome(copied)]
    /\ wg' = [wg EXCEPT ![w] = @ - 1]
    /\ UNCHANGED <<exists_resp, boot_vars>>
    /\ UNCHANGED <<available, files, mutex, entry, pc, req, ret, nrec, resp,
                   file_hash, launched>>

\* faulty variant: wg.Done() is reached only by a copy that was stored
WaitReadyAllStored(w) == \A k \in DOMAIN task[w] : task[w][k] = "stored"

\* faulty variant: archive_file does not wait for the copy goroutines
WaitReadyAlways(w) == TRUE

\* wg.Wait() returns once the counter is zero
WaitReady(w) == wg[w] = 0

Wait(w) ==
    /\ pc[w] = "archive_wait"
    /\ WaitReady(w)
    /\ pc' = [pc EXCEPT ![w] = "archive_remove"]
    /\ UNCHANGED <<exists_resp, boot_vars>>
    /\ UNCHANGED <<available, files, mutex, entry, req, ret, nrec, resp,
                   file_hash, fs, launched, task, wg>>

\* faulty variant: the staging file is kept unless every copy was stored
RemovedIfAllStored(w) ==
    IF \A k \in DOMAIN task[w] : task[w][k] = "stored"
    THEN {HashFilename(ret[w].staging_path, file_hash[w])}
    ELSE {}

\* what os.Remove(hash_filename) deletes: the results of the copies are
\* not looked at
Removed(w) == {HashFilename(ret[w].staging_path, file_hash[w])}

\* os.Remove(hash_filename); archive_file returns
Remove(w) ==
    /\ pc[w] = "archive_remove"
    /\ fs' = fs \ Removed(w)
    /\ pc' = [pc EXCEPT ![w] = "archived"]
    /\ ret' = [ret EXCEPT ![w] = NoRet]
    /\ UNCHANGED <<exists_resp, boot_vars>>
    /\ UNCHANGED <<available, files, mutex, entry, req, nrec, resp,
                   file_hash, launched, task, wg>>

archive_file(w) ==
    \/ Launch(w)
    \/ \E k \in 1..KFS_REDUNDANCY : StoreFile(w, k)
    \/ Wait(w)
    \/ Remove(w)

\* handle_exists: db_has_hash(client_hash), answered "yes" or "no"; the
\* function is called without the mutex.
\*   lookup_ok: the query of db_has_hash succeeds (it answers false if not)
handle_exists(h) ==
    /\ \E lookup_ok \in BOOLEAN :
          exists_resp' =
              [hash |-> h,
               answer |-> IF lookup_ok /\ db_has_hash(h) THEN "yes" ELSE "no"]
    /\ UNCHANGED <<available, files, mutex, entry, pc, req, ret, nrec, resp,
                   file_hash, fs, launched, task, wg, boot_vars>>

handle_upload(w) ==
    \/ RequestOf(w, UploadSizes)
    \/ AllocStorage(w)
    \/ Stage(w)
    \/ Verify(w)

Next ==
    \E w \in Workers :
        \/ handle_upload(w)
        \/ archive_file(w)

\* Whole uploads: every disk starts with MaxAvail bytes free and every
\* upload has one size, so that the state space is spent on the
\* interleavings of the handlers and the copy goroutines.
InitUpload == Init /\ \A d \in Disks : available[d] = MaxAvail

Spec == InitUpload /\ [][Next]_vars

(***************************************************************************)
(* Scheduling.  A goroutine that can take its next step takes it: the Go   *)
(* scheduler runs every runnable goroutine, and sync.Mutex hands the lock  *)
(* to a waiter once it is free.  Two steps are left to the environment:    *)
(* the arrival of a request, and the end of cp, an external process        *)
(* archive_file waits for without a timeout.                               *)
(***************************************************************************)
Fairness ==
    \A w \in Workers :
        /\ WF_vars(AllocStorage(w))
        /\ WF_vars(Stage(w))
        /\ WF_vars(Verify(w))
        /\ WF_vars(Launch(w))
        /\ WF_vars(Wait(w))
        /\ WF_vars(Remove(w))

SpecFair == Spec /\ Fairness

(***************************************************************************)
(* The allocation engine on its own: every upload goroutine is followed    *)
(* until AllocStorage has returned.  The later steps of handle_upload and  *)
(* archive_file read and write neither table nor the mutex.                *)
(***************************************************************************)
NextAlloc ==
    \E w \in Workers :
        \/ Request(w)
        \/ AllocStorage(w)

SpecAlloc == Init /\ [][NextAlloc]_vars

(***************************************************************************)
(* The allocation engine together with the existence probe: handle_exists  *)
(* runs at any moment, also while an AllocStorage call holds the mutex.    *)
(***************************************************************************)
NextExists ==
    \/ NextAlloc
    \/ \E h \in Hashes : handle_exists(h)

SpecExists == Init /\ [][NextExists]_vars

(***************************************************************************)
(* main: db_init, then the server.  The tables are kept in the database    *)
(* file and outlive the process; the mutex and the goroutines do not.      *)
(* db_init runs once per process, so a re-run is the start of a new        *)
(* process: whatever the previous one was doing has ended.  A db.Exec of   *)
(* db_init that fails panics and the process exits with the rows written   *)
(* so far.                                                                 *)
(***************************************************************************)
\* the values get_disk_space reports (0 also when unix.Statfs fails)
ProbeValues == {0, MaxAvail}

\* a row of table disks as db_init finds it
DiskRow(d) == [n |-> disk_rows[d], available |-> available[d]]

\* faulty variant: INSERT OR IGNORE, a row already there is kept
disk_insert_or_ignore(row, value) ==
    IF row.n > 0 THEN row ELSE [n |-> 1, available |-> value]

\* INSERT OR REPLACE INTO disks(root, available) values(?, ?), root being
\* the primary key: one row with the new value, whatever was there
disk_insert(row, value) == [n |-> 1, available |-> value]

\* db_init in a new process.
\*   probe: what get_disk_space reports for every disk
\*   done:  the number of disks whose db.Exec succeeded (all of them: db_init
\*          returns; fewer: the next one panicked, also a failed schema)
db_init ==
    /\ \E probe \in [Disks -> ProbeValues], done \in 0..NDisks :
          LET row(d) == IF d <= done THEN disk_insert(DiskRow(d), probe[d])
                        ELSE DiskRow(d)
          IN /\ available' = [d \in Disks |-> row(d).available]
             /\ disk_rows' = [d \in Disks |-> row(d).n]
             /\ IF done = NDisks
                THEN /\ server' = "initialized"
                     /\ space' = probe
                     /\ entry' = ledger
                ELSE /\ server' = "down"
                     /\ space' = NoSpace
                     /\ entry' = NoEntry
    /\ mutex' = NoOwner
    /\ pc' = [w \in Workers |->
                 IF pc[w] \in {"idle", "done", "archived"} THEN pc[w]
                 ELSE "done"]
    /\ resp' = [w \in Workers |->
                   IF pc[w] \in {"lock", "alloc", "unlock", "allocated",
                                 "staged"}
                   THEN "aborted" ELSE resp[w]]
    /\ ret' = [w \in Workers |-> NoRet]
    /\ req' = [w \in Workers |-> [req[w] EXCEPT !.size = 0]]
    /\ UNCHANGED <<files, nrec, archive_vars, exists_resp>>

\* db_init has returned: server.ListenAndServe()
ListenAndServe ==
    /\ server = "initialized"
    /\ server' = "up"
    /\ space' = NoSpace
    /\ entry' = NoEntry
    /\ UNCHANGED <<available, files, mutex, pc, req, ret, nrec, resp,
                   archive_vars, exists_resp, disk_rows>>

\* the database file does not exist and no process runs
InitBoot ==
    /\ available = [d \in Disks |-> 0]
    /\ disk_rows = [d \in Disks |-> 0]
    /\ files = [h \in Hashes |-> [d \in Disks |-> 0]]
    /\ server = "down"
    /\ space = NoSpace
    /\ mutex = NoOwner
    /\ entry = NoEntry
    /\ pc = [w \in Workers |-> "idle"]
    /\ req = [w \in Workers |-> NoReq]
    /\ ret = [w \in Workers |-> NoRet]
    /\ nrec = [w \in Workers |-> 0]
    /\ resp = [w \in Workers |-> "none"]
    /\ file_hash = [w \in Workers |-> NoHash]
    /\ fs = {}
    /\ launched = [w \in Workers |-> 0]
    /\ task = [w \in Workers |-> <<>>]
    /\ wg = [w \in Workers |-> 0]
    /\ exists_resp = NoAnswer

\* the requests are served while the server is up
NextInit ==
    \/ db_init
    \/ ListenAndServe
    \/ \E w \in Workers :
          \/ server = "up" /\ Request(w)
          \/ server = "up" /\ Lock(w)
          \/ server = "up" /\ AllocBody(w)
          \/ server = "up" /\ Unlock(w)

SpecInit == InitBoot /\ [][NextInit]_vars


(***************************************************************************)
(* Properties.  AllocStorage has run its body and is about to unlock when  *)
(* pc[w] = "unlock": ret[w] is what it returns, `entry` holds the tables   *)
(* as they were when it took the lock, and req[w] its arguments.           *)
(***************************************************************************)
Returned(w) == pc[w] = "unlock"

\* the call returned a value and no error
ReturnedNoError(w) ==
    /\ pc[w] \in {"unlock", "allocated"}
    /\ ret[w].kind \in {"skip", "placement"}

Decrease == [d \in Disks |-> entry.available[d] - available[d]]

TotalDebited == SumOver(Decrease, Disks)

Touched == {d \in Disks : available[d] # entry.available[d]}

PlacementRoots(w) ==
    {RootOf(ret[w].storage_paths[i]) : i \in 1..Len(ret[w].storage_paths)}

\* C1: of two Allocate calls for the same new hash that both return without
\* an error, exactly one has committed FileRecord rows and the other
\* returned AlreadyStored (skip) having committed none.
C1_ExactlyOneCommits ==
    \A w1, w2 \in Workers :
        (w1 # w2 /\ req[w1].hash = req[w2].hash
         /\ ReturnedNoError(w1) /\ ReturnedNoError(w2))
        => \/ nrec[w1] > 0 /\ ret[w2].skip /\ nrec[w2] = 0
           \/ nrec[w2] > 0 /\ ret[w1].skip /\ nrec[w1] = 0

\* C2: an Allocate call for a hash that has a FileRecord row when the call
\* starts returns AlreadyStored and leaves both tables as they were.
C2_StoredHashSkipped ==
    \A w \in Workers :
        (Returned(w) /\ CountRows(entry.files, req[w].hash) > 0)
        => ret[w].skip /\ ret[w].kind = "skip" /\ ledger = entry

\* C3: available is never negative on any disk.
C3_AvailableNonNegative == \A d \in Disks : available[d] >= 0

\* C3 witness: a placement for a non-empty file has been committed and its
\* staging disk is left with less free space than the file's size.
C3_Witness ==
    \E w \in Workers :
        /\ Returned(w) /\ ret[w].kind = "placement"
        /\ req[w].size > 0
        /\ available[RootOf(ret[w].staging_path)] < req[w].size

\* C4 as stated: a successful Allocate debits size times the number of
\* distinct disks whose available changed.
C4_DebitPerDistinctDisk ==
    \A w \in Workers :
        (Returned(w) /\ ret[w].kind = "placement")
        => TotalDebited = req[w].size * Cardinality(Touched)

\* C4 amended: a successful Allocate debits size * (KFS_REDUNDANCY + 1) in
\* total: 2 * size from the staging disk, which is also the first replica
\* disk, size from every other replica disk, nothing from any other disk.
C4_DebitStagingTwice ==
    \A w \in Workers :
        (Returned(w) /\ ret[w].kind = "placement")
        => /\ TotalDebited = req[w].size * (KFS_REDUNDANCY + 1)
           /\ RootOf(ret[w].staging_path) = RootOf(ret[w].storage_paths[1])
           /\ \A d \in Disks :
                Decrease[d] =
                    IF d = RootOf(ret[w].staging_path) THEN 2 * req[w].size
                    ELSE IF d \in PlacementRoots(w) THEN req[w].size
                    ELSE 0

\* C4 witness: a successful Allocate of a non-empty file.
C4_Witness ==
    \E w \in Workers :
        Returned(w) /\ ret[w].kind = "placement" /\ req[w].size > 0

\* C5: when a statement of the commit step fails, no debit and no
\* FileRecord row of the call survives.
C5_CommitAllOrNothing ==
    \A w \in Workers :
        (Returned(w) /\ ret[w].kind = "panic") => ledger = entry

\* C6: a returned placement names exactly KFS_REDUNDANCY replica paths on
\* pairwise distinct disk roots.
C6_DistinctReplicas ==
    \A w \in Workers :
        ret[w].kind = "placement"
        => /\ Len(ret[w].storage_paths) = KFS_REDUNDANCY
           /\ Cardinality(PlacementRoots(w)) = KFS_REDUNDANCY
           /\ PlacementRoots(w) \subseteq Disks

\* C6 witness: a placement was returned while other disks qualified too.
C6_Witness ==
    \E w \in Workers :
        /\ Returned(w) /\ ret[w].kind = "placement"
        /\ Cardinality({d \in Disks :
               entry.available[d] > Threshold(req[w].size)}) > KFS_REDUNDANCY

\* the disks that qualified when the call took the lock
QualifiedAtEntry(w) ==
    {d \in Disks : entry.available[d] > 2 * req[w].size}

\* C7: with fewer than KFS_REDUNDANCY disks above the threshold, Allocate
\* for a hash without rows returns an error and leaves both tables as they
\* were.
C7_InsufficientRedundancy ==
    \A w \in Workers :
        (/\ Returned(w)
         /\ CountRows(entry.files, req[w].hash) = 0
         /\ Cardinality(QualifiedAtEntry(w)) < KFS_REDUNDANCY)
        => /\ ret[w].kind \in {"not_enough_disks", "query_error"}
           /\ ~ret[w].skip
           /\ ledger = entry

\* C7 witness: the call found one disk short and returned the error.
C7_Witness ==
    \E w \in Workers :
        /\ Returned(w) /\ ret[w].kind = "not_enough_disks"
        /\ CountRows(entry.files, req[w].hash) = 0
        /\ Cardinality(QualifiedAtEntry(w)) = KFS_REDUNDANCY - 1

C9_RowsZeroOrR ==
    \A h \in Hashes :
        /\ CountRows(files, h) \in {0, KFS_REDUNDANCY}
        /\ \A d \in Disks : files[h][d] <= 1

\* C10: at most one goroutine is between mutex.Lock() and mutex.Unlock().
C10_OneInCriticalSection ==
    Cardinality({w \in Workers : pc[w] \in {"alloc", "unlock"}}) <= 1

\* C10 witness: one goroutine is in the critical section while another
\* waits at mutex.Lock().
C10_Witness ==
    \E w1, w2 \in Workers :
        pc[w1] = "alloc" /\ pc[w2] = "lock"

\* the goroutine is in archive_file or has returned from it
InArchive(w) ==
    pc[w] \in {"archive_loop", "archive_wait", "archive_remove", "archived"}

\* a copy goroutine of the upload has been started
CopyLaunched(w) ==
    \/ launched[w] > 0
    \/ \E k \in DOMAIN task[w] : task[w][k] # "none"

\* C11: archive_file runs, and copy goroutines exist, only for an upload
\* whose staged bytes were hashed to the client_hash passed to AllocStorage;
\* an upload answered with a hash mismatch or a failed hash_file has ended
\* without archive_file and without any copy goroutine.
C11_ReplicateAfterVerify ==
    \A w \in Workers :
        /\ (InArchive(w) \/ CopyLaunched(w))
           => /\ file_hash[w] # NoHash
              /\ file_hash[w] = req[w].hash
              /\ resp[w] = "ok"
        /\ resp[w] \in {"mismatch", "hash_failed"}
           => /\ pc[w] = "done"
              /\ ~CopyLaunched(w)
              /\ task[w] = <<>>

\* C11 witness: one upload has copy goroutines started while another was
\* refused for a hash mismatch.
C11_Witness ==
    \E w1, w2 \in Workers :
        /\ launched[w1] > 0
        /\ resp[w2] = "mismatch"

\* the upload was refused after AllocStorage had returned a placement for it
VerificationFailed(w) == resp[w] \in {"mismatch", "hash_failed"}

\* the rows and the debits of an upload that failed verification are kept
RowsKeptAfterFailure ==
    \A w \in Workers :
        VerificationFailed(w)
        => /\ nrec[w] = KFS_REDUNDANCY
           /\ CountRows(files, req[w].hash) >= KFS_REDUNDANCY
           /\ db_has_hash(req[w].hash)

\* C12: after an upload has failed hash verification, the rows AllocStorage
\* inserted for its client_hash are still in `files`, and every AllocStorage
\* call that runs afterwards for that hash returns skip = true.
C12_FailedUploadStaysRecorded ==
    /\ RowsKeptAfterFailure
    /\ \A w, v \in Workers :
          (/\ v # w
           /\ VerificationFailed(w)
           /\ Returned(v)
           /\ req[v].hash = req[w].hash)
          => ret[v].kind = "skip" /\ ret[v].skip

\* the upload file of goroutine w under its uuid name, on any disk
UploadFiles(w) ==
    {f \in fs : f.name = get_output_path(StagingPath(1), w).name}

\* no staging file, no digest and no copy goroutine exists for the upload
NoUploadWork(w) ==
    /\ UploadFiles(w) = {}
    /\ file_hash[w] = NoHash
    /\ ~CopyLaunched(w)
    /\ ~InArchive(w)

\* the step in which handle_upload acts on skip = true
SkipStep(w) ==
    /\ pc[w] = "allocated"
    /\ ret[w].skip
    /\ pc'[w] # pc[w]

\* C13: when AllocStorage returned skip = true, handle_upload answers OK and
\* returns at once: the step creates no file, and neither before nor after
\* it is there a staging file, a digest or a copy goroutine of the request.
C13_SkipShortCircuits ==
    /\ [](\A w \in Workers :
            /\ ret[w].skip
               => pc[w] \in {"unlock", "allocated"} /\ NoUploadWork(w)
            /\ (pc[w] = "done" /\ resp[w] = "ok") => NoUploadWork(w))
    /\ [][\A w \in Workers :
            SkipStep(w)
            => /\ pc'[w] = "done"
               /\ resp'[w] = "ok"
               /\ fs' = fs
               /\ UNCHANGED <<file_hash, launched, task, wg>>]_vars

\* C13 witness: a request whose AllocStorage skipped has been answered OK
\* while the rows of its hash were inserted by another upload.
C13_Witness ==
    \E w \in Workers :
        /\ pc[w] = "done"
        /\ resp[w] = "ok"
        /\ nrec[w] = 0
        /\ db_has_hash(req[w].hash)

\* every copy goroutine of the upload has been started and has reported
AllReported(w) ==
    /\ launched[w] = KFS_REDUNDANCY
    /\ \A k \in DOMAIN task[w] : task[w][k] \in {"stored", "failed"}

\* the step in which archive_file calls os.Remove and returns
RemoveStep(w) ==
    /\ pc[w] = "archive_remove"
    /\ pc'[w] # pc[w]

\* C14: once all copy goroutines have reported, archive_file goes on to
\* os.Remove whatever they reported, and the step deletes the staging file;
\* a copy that failed stays failed (it is not run again), and the answer
\* given to the client is not changed by archive_file.
C14_CleanupUnconditional ==
    /\ [](\A w \in Workers :
            /\ (pc[w] = "archive_wait" /\ AllReported(w)) => ENABLED Wait(w)
            /\ pc[w] = "archive_remove" => ENABLED Remove(w))
    /\ [][\A w \in Workers :
            /\ RemoveStep(w)
               => /\ pc'[w] = "archived"
                  /\ HashFilename(ret[w].staging_path, file_hash[w]) \notin fs'
            /\ InArchive(w)
               => /\ resp'[w] = resp[w]
                  /\ \A k \in DOMAIN task[w] :
                        task[w][k] = "failed" => task'[w][k] = "failed"]_vars

\* C14 witness: archive_file has returned after every copy failed, and the
\* staging file is gone.
C14_Witness ==
    \E w \in Workers :
        /\ pc[w] = "archived"
        /\ resp[w] = "ok"
        /\ \A k \in 1..KFS_REDUNDANCY : task[w][k] = "failed"
        /\ \A d \in Disks :
              HashFilename(StagingPath(d), file_hash[w]) \notin fs

\* a copy goroutine of the upload is in flight
CopyRunning(w) == \E k \in DOMAIN task[w] : task[w][k] = "running"

\* C15: a goroutine holds the mutex only inside AllocStorage, so never
\* while it stages, verifies or replicates; the steps of archive_file and of
\* its copy goroutines do not wait for the mutex, and mutex.Lock() of
\* another upload waits only for a goroutine that is inside AllocStorage.
C15_NoLockDuringReplication ==
    \A w \in Workers :
        /\ mutex = w => pc[w] \in {"alloc", "unlock"}
        /\ (InArchive(w) \/ CopyLaunched(w)) => mutex # w
        /\ pc[w] = "archive_loop" => ENABLED Launch(w)
        /\ \A k \in DOMAIN task[w] :
              task[w][k] = "running" => ENABLED StoreFile(w, k)
        /\ pc[w] = "lock"
           => (ENABLED Lock(w)
               <=> ~\E v \in Workers : pc[v] \in {"alloc", "unlock"})

\* C15 witness: one upload has a copy goroutine in flight while another
\* upload is inside AllocStorage, holding the mutex.
C15_Witness ==
    \E w1, w2 \in Workers :
        /\ w1 # w2
        /\ CopyRunning(w1)
        /\ pc[w2] = "alloc"
        /\ mutex = w2

\* copy goroutines of two uploads are in flight at the same time
ParallelCopies ==
    \E w1, w2 \in Workers : w1 # w2 /\ CopyRunning(w1) /\ CopyRunning(w2)

\* C16: a step in which handle_exists answers changes no row of `disks` and
\* no row of `files`, and the answer is "yes" exactly when `files` holds at
\* least one row for the hash asked at that moment.
C16_ExistsExact ==
    [][exists_resp' # exists_resp
       => /\ available' = available
          /\ files' = files
          /\ (exists_resp'.answer = "yes"
              <=> CountRows(files, exists_resp'.hash) > 0)]_vars

\* handle_exists changes neither table
ExistsReadOnly ==
    [][exists_resp' # exists_resp
       => available' = available /\ files' = files]_vars

\* C17: a call whose candidate query failed has committed nothing, and a
\* call for a hash that had rows when it took the lock has committed nothing
\* either, whether its dedup lookup succeeded or failed: no second set of
\* rows and no further debit.
C17_NoCommitOnStoreFailure ==
    \A w \in Workers :
        Returned(w)
        => /\ ret[w].kind = "query_error" => ledger = entry
           /\ CountRows(entry.files, req[w].hash) > 0
              => /\ files = entry.files
                 /\ available = entry.available
                 /\ nrec[w] = 0

\* the disks a returned placement names: the staging disk and the replicas
PlacementDisks(w) == PlacementRoots(w) \cup {RootOf(ret[w].staging_path)}

\* C18: every disk a returned placement names, as staging disk or as
\* replica disk, had available > 2 * size when the call selected it (the
\* tables do not change between the candidate query and the first debit:
\* the mutex is held); so did every disk the call has debited at all.
C18_SelectedAboveThreshold ==
    \A w \in Workers :
        Returned(w)
        => /\ ret[w].kind = "placement"
              => \A d \in PlacementDisks(w) :
                    entry.available[d] > 2 * req[w].size
           /\ \A d \in Touched : entry.available[d] > 2 * req[w].size

\* C18 witness: a placement for a non-empty file names a disk that had
\* exactly 2 * size + 1 free and leaves out a disk that had no more than
\* 2 * size.
C18_Witness ==
    \E w \in Workers :
        /\ Returned(w) /\ ret[w].kind = "placement"
        /\ req[w].size > 0
        /\ \E d \in PlacementDisks(w) :
              entry.available[d] = 2 * req[w].size + 1
        /\ \E d \in Disks \ PlacementDisks(w) :
              entry.available[d] <= 2 * req[w].size

\* the copy goroutines of the upload that are in flight
RunningCopies(w) == {k \in DOMAIN task[w] : task[w][k] = "running"}

\* C19: archive_file starts the copy goroutines in the order of
\* storage_paths, one per entry and none beyond them; a copy goroutine runs
\* copy_file once and ends, stored or failed, and that result is final: no
\* step starts it again.
C19_OneCopyPerTarget ==
    /\ [](\A w \in Workers :
            /\ launched[w] <= Len(ret[w].storage_paths)
                  \/ (pc[w] = "archived" /\ launched[w] = KFS_REDUNDANCY)
            /\ \A k \in DOMAIN task[w] :
                  (k <= launched[w]) <=> (task[w][k] # "none")
            /\ pc[w] \in {"archive_wait", "archive_remove", "archived"}
               => /\ launched[w] = KFS_REDUNDANCY
                  /\ DOMAIN task[w] = 1..KFS_REDUNDANCY
            /\ wg[w] = Cardinality(RunningCopies(w)))
    /\ [][\A w \in Workers :
            /\ \A k \in DOMAIN task[w] \cap DOMAIN task'[w] :
                  task'[w][k] # task[w][k]
                  => \/ /\ task[w][k] = "none"
                        /\ task'[w][k] = "running"
                        /\ launched[w] = k - 1
                        /\ launched'[w] = k
                     \/ /\ task[w][k] = "running"
                        /\ task'[w][k] \in {"stored", "failed"}
                        /\ wg'[w] = wg[w] - 1
            /\ wg'[w] < wg[w]
               => \E k \in RunningCopies(w) :
                     task'[w][k] \in {"stored", "failed"}]_vars

\* C19 witness: archive_file has returned after one copy per target, and
\* each copy was stored at the first attempt.
C19_Witness ==
    \E w \in Workers :
        /\ pc[w] = "archived"
        /\ launched[w] = KFS_REDUNDANCY
        /\ \A k \in 1..KFS_REDUNDANCY : task[w][k] = "stored"
        /\ Cardinality({f \in fs : f.dir[2] = StoragePath(1)[2]
                                  /\ f.name[2] = file_hash[w]})
              >= KFS_REDUNDANCY

\* copy goroutine k of the upload is in flight
TaskRunning(w, k) == k \in DOMAIN task[w] /\ task[w][k] = "running"

\* archive_file of the upload has started and has not returned
Replicating(w) ==
    pc[w] \in {"archive_loop", "archive_wait", "archive_remove"}

\* the goroutine is at mutex.Lock() or inside AllocStorage
InAllocStorage(w) == pc[w] \in {"lock", "alloc", "unlock"}

\* every copy goroutine of the upload ends at some time
CopiesTerminate(w) ==
    \A k \in 1..KFS_REDUNDANCY : []<>(~TaskRunning(w, k))

C21_InitRefreshesDisks ==
    server = "initialized"
    => /\ \A d \in Disks : disk_rows[d] = 1 /\ available[d] = space[d]
       /\ files = entry.files

\* C21 witness: db_init has returned in a process that found rows of an
\* earlier upload in `files` and a debited row in `disks`, and has replaced
\* the debited value.
C21_Witness ==
    /\ server = "initialized"
    /\ \E h \in Hashes : CountRows(files, h) > 0
    /\ \E d \in Disks :
          /\ entry.available[d] \notin ProbeValues
          /\ available[d] # entry.available[d]

\* the replica of hash h in the storage directory of disk d
ReplicaFile(h, d) == CopyTarget(HashFilename(StagingPath(d), h), StoragePath(d))

\* every request has been answered and every archive_file has returned:
\* no goroutine is left that could still write a replica
AllEnded == \A w \in Workers : pc[w] \in {"done", "archived"}

\* C22: for every upload answered OK, after its own verification or on
\* skip = true, a file of its hash comes to exist in the storage directory
\* of every disk that `files` records for the hash; stated for the states
\* in which nothing is left to run, where "eventually" has to have happened.
C22_SuccessImpliesReplicas ==
    AllEnded
    => \A w \in Workers :
          resp[w] = "ok"
          => \A d \in Disks :
                files[req[w].hash][d] > 0 => ReplicaFile(req[w].hash, d) \in fs

=============================================================================
